---- MODULE Spec2Model ----
(***************************************************************************)
(* A model of vyked's service bus (src/vyked/bus.py): the TCP bus          *)
(* (bootstrap, connection table, request sender with retry, keepalive      *)
(* timeout, inbound packet routing) and the pub/sub bus (publish,          *)
(* exclusive publish, subscription handler).                               *)
(*                                                                         *)
(* Python strings are sequences of one-character strings, so that joining  *)
(* and splitting a topic is computed character by character.  Python's     *)
(* None (and every falsy node id) is the empty sequence NoNode; "no        *)
(* protocol object" is NoProto.                                            *)
(***************************************************************************)
EXTENDS Integers, Sequences, FiniteSets, TLC

\* ------------------------------------------------------------------ bounds
MaxRequests == 1
MaxConns == 1
MaxPublishes == 1
MaxSubscribers == 2
MaxMessages == 3
MaxInbound == 2

\* ------------------------------------------------------- python values
\* A Python value that is an int or a str (a service version).
IntV(i) == [kind |-> "int", i |-> i, s |-> <<>>]
StrV(s) == [kind |-> "str", i |-> 0, s |-> s]

DigitChar(d) == <<"0", "1", "2", "3", "4", "5", "6", "7", "8", "9">>[d + 1]

RECURSIVE Digits(_)
Digits(n) == IF n < 10 THEN <<DigitChar(n)>>
             ELSE Append(Digits(n \div 10), DigitChar(n % 10))

\* str(v): the decimal numeral of an int, a str unchanged.
PyStr(v) == IF v.kind = "str" THEN v.s ELSE Digits(v.i)

\* v == s for a Python value v and a Python str s: an int never equals a str.
PyEqStr(v, s) == v.kind = "str" /\ v.s = s

\* ------------------------------------------------------------- the world
NoNode == <<>>
NoProto == 0
NoClient == 0
Unset == <<>>

HostId == <<"h">>
NodeX == <<"x">>
NodeY == <<"y">>
NodeZ == <<"z">>
NodeIds == {NodeX, NodeY}

SvcA == <<"a">>
SvcB == <<"b">>
SvcC == <<"c">>
OnEvent == <<"o", "n">>
OnOther == <<"o", "k">>

\* The service clients (proxies) the host declares: self._service_clients of
\* the TCP bus and self._clients of the pub/sub bus are the same list.
\* `subs` are a client's methods marked is_subscribe, `xsubs` those marked
\* is_xsubscribe with their strategy.
Clients == << [name |-> SvcA, version |-> IntV(1), subs |-> {OnEvent},
               xsubs |-> {[endpoint |-> OnOther, strategy |-> "LEADER"]}],
              [name |-> SvcB, version |-> StrV(<<"2">>), subs |-> {OnEvent},
               xsubs |-> {[endpoint |-> OnOther, strategy |-> "OTHER"]}] >>

ClientIds == 1..Len(Clients)
ProtoIds == 1..MaxConns

\* The request target of the model: every replica the registry knows is a
\* TCP replica of (SvcA, 1).
Target == [name |-> SvcA, version |-> IntV(1), entity |-> <<"e">>]

PacketTypes == {"request", "response"}

\* What a registry notification may name: the proxies' identities and one
\* identity no proxy has.
NotifiedIdentities == { <<Clients[c].name, Clients[c].version>> : c \in ClientIds }
                        \cup { <<SvcC, IntV(1)>> }

VARIABLES
    reg_nodes,          \* registry (external): the node ids it knows
    node_clients,       \* self._node_clients: node id -> client index
    client_protocols,   \* self._client_protocols: node id -> protocol id
    pingers,            \* self._pingers: node ids with a pinger
    connecting,         \* connection attempts in flight
    next_proto,         \* next protocol object to be created
    connected,          \* protocol objects whose is_connected() is true
    wire,               \* packets handed to each protocol's send()
    requests,           \* the send() calls made so far
    last,               \* the latest handler call and how it ended
    registered,         \* self._registered
    resolve_seq,        \* send() calls in the order of their latest resolve
    pub_log,            \* publishes handed to the pub/sub transport, in order
    xtasks,             \* the xpublish task of each publish() call
    sub_clients,        \* PubSubBus._clients (empty: None)
    subscribed,         \* topics subscribed at the pub/sub transport
    reg_xsubs,          \* registry (external): exclusive subscriptions recorded
    sub_calls,          \* handler invocations scheduled by subscription_handler
    sub_last,           \* the latest subscription_handler call
    api_calls,          \* endpoint handler invocations scheduled by receive
    outbox,             \* packets sent on each inbound connection
    pong_calls,         \* pong_received calls scheduled on pingers
    recv_last           \* the latest receive call and how it ended

tcp_vars == <<reg_nodes, node_clients, client_protocols, pingers, connecting,
              next_proto, connected, wire, requests, last, registered,
              resolve_seq>>
pubsub_vars == <<pub_log, xtasks, sub_clients, subscribed, reg_xsubs, sub_calls,
                 sub_last>>
recv_vars == <<api_calls, outbox, pong_calls, recv_last>>
vars == <<tcp_vars, pubsub_vars, recv_vars>>

\* ---------------------------------------------------------------- TCPBus
\* `last` holds the latest connection-manager handler call and how it
\* ended (the exception it raised, the connection attempts it issued).  The
\* handlers take `rec`: whether the specification records their calls.
\* `arg` holds the service identity and replica type a new_instance call was
\* given.
NoArg == [service |-> <<>>, version |-> IntV(0), type |-> "none"]
NoCall == [op |-> "none", node |-> NoNode, exc |-> "None", connects |-> 0,
           known |-> FALSE, arg |-> NoArg]

Record(rec, call) == last' = IF rec THEN call ELSE last

\* Mutants of the decorator's parameters: one attempt more, a multiplier of 3.
MaxAttemptsOneMore == 5 + 1
MultiplierThree == 2 + 1

\* retry(..., max_attempts=5, multiplier=2)
MaxAttempts == 5
Multiplier == 2

\* Mutant: the result predicate without its negation.
ShouldRetryForResultInverted(x) == x

\* should_retry_for_result=lambda x: not x
ShouldRetryForResult(x) == ~x

\* should_retry_for_exception=lambda x: True
ShouldRetryForException(e) == TRUE

\* The retry loop gives up once it has made max_attempts attempts.
RetryExhausted(n) == n >= MaxAttempts

RECURSIVE Power(_, _)
Power(b, e) == IF e = 0 THEN 1 ELSE b * Power(b, e - 1)

\* The delay the retry loop waits after `failures` failed attempts, in units
\* of its base delay: exponential backoff in powers of the multiplier.
RetryDelay(failures) == Power(Multiplier, failures)

\* registry.resolve(service, version, entity, TCP): a known TCP replica of
\* the service, or None.
ResolveResults(name, version, entity) ==
    IF name = Target.name /\ version = Target.version /\ reg_nodes # {}
    THEN reg_nodes
    ELSE {NoNode}

\* registry.get_for_node(node_id): (host, port, node_id, type) or None.
GetForNode(node_id) ==
    IF node_id \in reg_nodes
    THEN [known |-> TRUE, node_id |-> node_id, type |-> "tcp"]
    ELSE [known |-> FALSE, node_id |-> NoNode, type |-> "none"]

\* Mutant: a resolved node without a table entry raises ClientDisconnected.
RequestSenderResultByNode(node_id, client_protocol, is_connected) ==
    IF node_id # NoNode
    THEN IF client_protocol # NoProto /\ is_connected THEN "sent"
         ELSE "ClientDisconnected"
    ELSE "ClientNotFoundError"

\* _request_sender's body for one attempt, given the resolved node id, the
\* table entry for it and that entry's is_connected().
RequestSenderResult(node_id, client_protocol, is_connected) ==
    IF node_id # NoNode /\ client_protocol # NoProto
    THEN IF is_connected THEN "sent" ELSE "ClientDisconnected"
    ELSE "ClientNotFoundError"

\* The parameters of _connect_to_client after self, and the positional
\* arguments its callers pass.
ConnectToClientArity == 5
NewInstanceArgsShort == 5 - 1
NewInstanceArgs == 5
PingTimeoutArgs == 4

\* A call of _connect_to_client with nargs positional arguments: a TypeError
\* when the count is wrong, else one attempt in flight whose done-callback is
\* bound to self._node_clients[node_id].
ConnectToClient(nargs, node_id, clients_table) ==
    IF nargs # ConnectToClientArity
    THEN [exc |-> "TypeError", attempts |-> {}]
    ELSE IF clients_table[node_id] = NoClient
    THEN [exc |-> "KeyError", attempts |-> {}]
    ELSE [exc |-> "None",
          attempts |-> {[id |-> next_proto, node |-> node_id,
                         sc |-> clients_table[node_id]]}]

TableGet(node_id) == IF node_id \in NodeIds THEN client_protocols[node_id] ELSE NoProto

\* The registry learns of a replica, or forgets one.
RegistryChange ==
    /\ \E n \in NodeIds :
          reg_nodes' = IF n \in reg_nodes THEN reg_nodes \ {n} ELSE reg_nodes \cup {n}
    /\ UNCHANGED <<node_clients, client_protocols, pingers, connecting, next_proto,
                   connected, wire, requests, last, registered, resolve_seq,
                   pubsub_vars, recv_vars>>

\* new_instance(service, version, host, port, node_id, type)
NewInstance(rec) ==
    \E ident \in NotifiedIdentities, n \in NodeIds, type \in {"tcp", "http"} :
       LET match == { c \in ClientIds : Clients[c].name = ident[1]
                                        /\ Clients[c].version = ident[2] }
           given == [service |-> ident[1], version |-> ident[2], type |-> type]
       IN  IF match = {}
           THEN /\ Record(rec, [op |-> "new_instance", node |-> n,
                            exc |-> "StopIteration", connects |-> 0,
                            known |-> FALSE, arg |-> given])
                /\ UNCHANGED <<reg_nodes, node_clients, client_protocols, pingers,
                               connecting, next_proto, connected, wire, requests,
                               registered, resolve_seq, pubsub_vars, recv_vars>>
           ELSE LET sc == CHOOSE c \in match : \A d \in match : c <= d
                    table == [node_clients EXCEPT ![n] = sc]
                    call == ConnectToClient(NewInstanceArgs, n, table)
                IN  IF type = "tcp"
                    THEN /\ next_proto <= MaxConns
                         /\ node_clients' = table
                         /\ connecting' = connecting \cup call.attempts
                         /\ next_proto' = next_proto + Cardinality(call.attempts)
                         /\ Record(rec, [op |-> "new_instance", node |-> n,
                                     exc |-> call.exc,
                                     connects |-> Cardinality(call.attempts),
                                     known |-> FALSE, arg |-> given])
                         /\ UNCHANGED <<reg_nodes, client_protocols, pingers, connected,
                                        wire, requests, registered, resolve_seq,
                                        pubsub_vars, recv_vars>>
                    ELSE /\ Record(rec, [op |-> "new_instance", node |-> n,
                                     exc |-> "None", connects |-> 0,
                                     known |-> FALSE, arg |-> given])
                         /\ UNCHANGED <<reg_nodes, node_clients, client_protocols,
                                        pingers, connecting, next_proto, connected,
                                        wire, requests, registered, resolve_seq,
                                        pubsub_vars, recv_vars>>

\* Mutant: an entry the table already has is kept.
RecordProtocolKeepFirst(table, node_id, protocol) ==
    IF table[node_id] = NoProto THEN [table EXCEPT ![node_id] = protocol] ELSE table

\* self._client_protocols[node_id] = protocol
RecordProtocol(table, node_id, protocol) == [table EXCEPT ![node_id] = protocol]

\* _service_client_connection_callback, run when an attempt's future is done:
\* future.result() raises when the connection failed.
ConnectionCallback(rec) ==
    \E a \in connecting, ok \in BOOLEAN :
       /\ connecting' = connecting \ {a}
       /\ IF ok
          THEN /\ client_protocols' = RecordProtocol(client_protocols, a.node, a.id)
               /\ connected' = connected \cup {a.id}
               /\ Record(rec, [op |-> "connection_callback", node |-> a.node,
                           exc |-> "None", connects |-> 0, known |-> FALSE, arg |-> NoArg])
          ELSE /\ Record(rec, [op |-> "connection_callback", node |-> a.node,
                           exc |-> "ConnectionError", connects |-> 0,
                           known |-> FALSE, arg |-> NoArg])
               /\ UNCHANGED <<client_protocols, connected>>
       /\ UNCHANGED <<reg_nodes, node_clients, pingers, next_proto, wire, requests,
                      registered, resolve_seq, pubsub_vars, recv_vars>>

\* The transport of a protocol object closes: is_connected() turns false.
TransportClose ==
    /\ \E p \in connected : connected' = connected \ {p}
    /\ UNCHANGED <<reg_nodes, node_clients, client_protocols, pingers, connecting,
                   next_proto, wire, requests, last, registered, resolve_seq,
                   pubsub_vars, recv_vars>>

\* send(packet): stamps 'from' and schedules the sender named by the type;
\* the bus has a sender for requests only (getattr raises for another type).
Send(max) ==
    \E type \in PacketTypes :
       /\ Len(requests) < max
       /\ requests' = Append(requests,
             [type |-> type,
              packet |-> [name |-> Target.name, version |-> Target.version,
                          entity |-> Target.entity, from |-> HostId, to |-> Unset],
              state |-> IF type = "request" THEN "scheduled" ELSE "no_sender",
              attempts |-> 0, delays |-> <<>>, error |-> "None",
              obs |-> [node |-> NoNode, proto |-> NoProto, live |-> FALSE]])
       /\ UNCHANGED <<reg_nodes, node_clients, client_protocols, pingers, connecting,
                      next_proto, connected, wire, last, registered, resolve_seq,
                      pubsub_vars, recv_vars>>

\* Mutant: the transport puts a packet ahead of those it already holds.
ProtocolSendFirst(sent, packet) == <<packet>> \o sent

\* client_protocol.send(packet): the packet follows those handed over before.
ProtocolSend(sent, packet) == Append(sent, packet)

\* One attempt of the retried _request_sender.  The attempt itself has no
\* suspension point: resolve, table lookup and hand-off are one step.  The
\* retry loop then decides: a result or exception it does not retry for ends
\* the call; otherwise it waits the backoff delay and tries again, unless
\* the attempt budget is spent, which ends the call in failure.  With `rec`
\* the specification records the order of the calls' latest resolve steps
\* that returned a node.
RequestAttempt(rec) ==
    \E i \in DOMAIN requests :
       LET r == requests[i] IN
       /\ r.state = "scheduled"
       /\ \E node_id \in ResolveResults(r.packet.name, r.packet.version, r.packet.entity) :
            LET proto == TableGet(node_id)
                live == proto \in connected
                res == RequestSenderResult(node_id, proto, live)
                n == r.attempts + 1
                seen == [node |-> node_id, proto |-> proto, live |-> live]
                again == IF res = "sent" THEN ShouldRetryForResult(TRUE)
                         ELSE ShouldRetryForException(res)
                after == [r EXCEPT !.attempts = n, !.obs = seen,
                                   !.error = IF res = "sent" THEN "None" ELSE res,
                                   !.packet.to = IF res = "sent" THEN node_id ELSE @]
            IN  /\ wire' = IF res = "sent"
                           THEN [wire EXCEPT ![proto] =
                                   ProtocolSend(@, [req |-> i, from |-> r.packet.from,
                                                    to |-> node_id])]
                           ELSE wire
                /\ resolve_seq' = IF rec /\ node_id # NoNode
                                  THEN LET Other(j) == j # i
                                       IN  Append(SelectSeq(resolve_seq, Other), i)
                                  ELSE resolve_seq
                /\ requests' = [requests EXCEPT ![i] =
                      IF ~again
                      THEN [after EXCEPT !.state = IF res = "sent" THEN "done"
                                                  ELSE "failed"]
                      ELSE IF RetryExhausted(n)
                      THEN [after EXCEPT !.state = "failed"]
                      ELSE [after EXCEPT !.delays = Append(@, RetryDelay(n))]]
       /\ UNCHANGED <<reg_nodes, node_clients, client_protocols, pingers, connecting,
                      next_proto, connected, last, registered, pubsub_vars, recv_vars>>

\* handle_ping_timeout(node_id)
HandlePingTimeout(rec) ==
    \E n \in NodeIds :
       LET service_props == GetForNode(n)
           call == IF service_props.known
                   THEN ConnectToClient(PingTimeoutArgs, service_props.node_id,
                                        node_clients)
                   ELSE [exc |-> "None", attempts |-> {}]
       IN  /\ next_proto + Cardinality(call.attempts) <= MaxConns + 1
           /\ pingers' = pingers \ {n}
           /\ connecting' = connecting \cup call.attempts
           /\ next_proto' = next_proto + Cardinality(call.attempts)
           /\ Record(rec, [op |-> "handle_ping_timeout", node |-> n, exc |-> call.exc,
                       connects |-> Cardinality(call.attempts),
                       known |-> service_props.known, arg |-> NoArg])
           /\ UNCHANGED <<reg_nodes, node_clients, client_protocols, connected, wire,
                          requests, registered, resolve_seq, pubsub_vars, recv_vars>>

\* registry.get_all_addresses(name, version): every replica of the service
\* in the registry's order, here the TCP replicas it knows of the target
\* service followed by one HTTP replica of it.
GetAllAddresses(name, version) ==
    IF name = Target.name /\ version = Target.version
    THEN (IF NodeX \in reg_nodes THEN <<[node_id |-> NodeX, type |-> "tcp"]>> ELSE <<>>)
         \o (IF NodeY \in reg_nodes THEN <<[node_id |-> NodeY, type |-> "tcp"]>> ELSE <<>>)
         \o <<[node_id |-> NodeZ, type |-> "http"]>>
    ELSE <<>>

\* The (service client, address) pairs _create_service_clients iterates over,
\* from client c on, in iteration order.
RECURSIVE ClientAddresses(_)
ClientAddresses(c) ==
    IF c > Len(Clients) THEN <<>>
    ELSE LET addrs == GetAllAddresses(Clients[c].name, Clients[c].version)
         IN  [k \in 1..Len(addrs) |->
                 [sc |-> c, node_id |-> addrs[k].node_id, type |-> addrs[k].type]]
             \o ClientAddresses(c + 1)

BootstrapArgs == 5

\* Mutant: the loop stops after the first pair.
CreateServiceClientsFirstOnly(todo, table, id, attempts) ==
    IF todo = <<>> \/ Head(todo).type # "tcp"
    THEN [table |-> table, attempts |-> attempts]
    ELSE [table |-> [table EXCEPT ![Head(todo).node_id] = Head(todo).sc],
          attempts |-> attempts \cup {[id |-> id, node |-> Head(todo).node_id,
                                       sc |-> Head(todo).sc]}]

\* The loop of _create_service_clients over the pairs `todo`: a TCP replica
\* is entered in self._node_clients and connected to, any other is skipped.
\* `id` is the next protocol object; the result is the table and the
\* attempts in flight at the end.
RECURSIVE CreateServiceClients(_, _, _, _)
CreateServiceClients(todo, table, id, attempts) ==
    IF todo = <<>> THEN [table |-> table, attempts |-> attempts]
    ELSE LET h == Head(todo)
             t == [table EXCEPT ![h.node_id] = h.sc]
         IN  IF h.type = "tcp"
             THEN CreateServiceClients(Tail(todo), t, id + 1,
                     attempts \cup { [a EXCEPT !.id = id] :
                         a \in ConnectToClient(BootstrapArgs, h.node_id, t).attempts })
             ELSE CreateServiceClients(Tail(todo), table, id, attempts)

\* Mutant: bootstrap whatever the flag says.
ShouldBootstrapAlways(flag) == TRUE

\* if not self._registered
ShouldBootstrap(flag) == ~flag

\* registration_complete()
RegistrationComplete(rec) ==
    IF ShouldBootstrap(registered)
    THEN LET boot == CreateServiceClients(ClientAddresses(1), node_clients,
                                          next_proto, {})
         IN  /\ node_clients' = boot.table
             /\ connecting' = connecting \cup boot.attempts
             /\ next_proto' = next_proto + Cardinality(boot.attempts)
             /\ registered' = TRUE
             /\ Record(rec, [op |-> "registration_complete", node |-> NoNode,
                         exc |-> "None", connects |-> Cardinality(boot.attempts),
                         known |-> FALSE, arg |-> NoArg])
             /\ UNCHANGED <<reg_nodes, client_protocols, pingers, connected, wire,
                            requests, resolve_seq, pubsub_vars, recv_vars>>
    ELSE /\ Record(rec, [op |-> "registration_complete", node |-> NoNode,
                     exc |-> "None", connects |-> 0, known |-> FALSE, arg |-> NoArg])
         /\ UNCHANGED <<reg_nodes, node_clients, client_protocols, pingers,
                        connecting, next_proto, connected, wire, requests,
                        registered, resolve_seq, pubsub_vars, recv_vars>>

\* ------------------------------------------------------ TCPBus.receive
\* self.hosts['tcp_host'] of a bus that serves a TCP host: its identity and
\* its attributes.  `api` are the methods marked is_api = True, `off` those
\* whose is_api is False, `plain` the attributes without an is_api attribute
\* (is_for_me is one); any other name is not an attribute of the host.
SvcH == <<"h">>
EpGet == <<"g">>
EpOff == <<"f">>
EpIsForMe == <<"i">>
EpMissing == <<"m">>
TcpHost == [name |-> SvcH, version |-> IntV(1),
            api |-> {EpGet}, off |-> {EpOff}, plain |-> {EpIsForMe}]

\* The inbound connections (protocol objects) packets arrive on.
Peers == {1, 2}

\* host.is_for_me(name, version): the packet is addressed to this service.
IsForMe(name, version) == name = TcpHost.name /\ version = TcpHost.version

Packet(type, name, version, endpoint, from) ==
    [type |-> type, name |-> name, version |-> version, endpoint |-> endpoint,
     from |-> from, entity |-> <<"e">>, payload |-> "p1", node_id |-> from,
     count |-> 1]

\* The packets peers send: control packets and application packets,
\* addressed to the hosted service or to another one.
InboundPackets ==
    { Packet(t, id[1], id[2], EpGet, NodeX) :
         t \in {"ping", "pong", "response"},
         id \in {<<SvcH, IntV(1)>>, <<SvcA, IntV(1)>>} }
    \cup { Packet("request", SvcH, IntV(1), ep, f) :
              ep \in {EpGet, EpOff, EpIsForMe, EpMissing}, f \in NodeIds }
    \cup { Packet("request", id[1], id[2], EpGet, NodeX) :
              id \in {<<SvcA, IntV(1)>>, <<SvcH, IntV(2)>>} }

\* The receivers the bus defines: getattr(self, '_' + type + '_receiver').
Receivers == {"request"}

NoReceive == [type |-> "none", conn |-> 0, exc |-> "None", call |-> 0,
              packet |-> Packet("none", <<>>, IntV(0), <<>>, NoNode)]

\* ControlPacket.pong(node_id)
Pong(node_id) == [type |-> "pong", node_id |-> node_id, call |-> 0]

\* Mutant: the ownership check looks at the service name only.
RoutedHereByName(packet) == packet.name = TcpHost.name

\* if self.hosts['tcp_host'].is_for_me(packet['name'], packet['version'])
RoutedHere(packet) == IsForMe(packet.name, packet.version)

\* What handling packet ends in: the exception receive raises, or "None"
\* with what it did ("pong": a pong sent, "forward": pong_received
\* scheduled, "call": the endpoint handler scheduled, "drop": nothing).
ReceiveOutcome(packet) ==
    IF packet.type = "ping" THEN [exc |-> "None", did |-> "pong"]
    ELSE IF packet.type = "pong"
    THEN IF packet.node_id \in pingers
         THEN [exc |-> "None", did |-> "forward"]
         ELSE [exc |-> "KeyError", did |-> "drop"]
    ELSE IF ~RoutedHere(packet)
    THEN [exc |-> "None", did |-> "drop"]
    ELSE IF packet.type \notin Receivers
    THEN [exc |-> "AttributeError", did |-> "drop"]
    ELSE IF packet.endpoint \in TcpHost.api
    THEN [exc |-> "None", did |-> "call"]
    ELSE IF packet.endpoint \in TcpHost.off
    THEN [exc |-> "None", did |-> "drop"]
    ELSE [exc |-> "AttributeError", did |-> "drop"]

PacketsSent == Len(outbox[1]) + Len(outbox[2])

\* api_fn(from_id=packet['from'], entity=packet['entity'], **packet['payload'])
ApiArgs(packet) ==
    [from_id |-> packet.from, entity |-> packet.entity, payload |-> packet.payload]

\* receive(packet, protocol, transport)
Receive ==
    \E packet \in InboundPackets, conn \in Peers :
       LET out == ReceiveOutcome(packet)
           call == Len(api_calls) + 1
       IN  /\ Len(api_calls) + PacketsSent < MaxInbound
           /\ outbox' = IF out.did = "pong"
                        THEN [outbox EXCEPT ![conn] = Append(@, Pong(packet.node_id))]
                        ELSE outbox
           /\ pong_calls' = IF out.did = "forward"
                            THEN Append(pong_calls, [node_id |-> packet.node_id,
                                                     count |-> packet.count])
                            ELSE pong_calls
           /\ api_calls' = IF out.did = "call"
                           THEN Append(api_calls,
                                   [endpoint |-> packet.endpoint, args |-> ApiArgs(packet),
                                    protocol |-> conn, state |-> "running"])
                           ELSE api_calls
           /\ recv_last' = [type |-> packet.type, conn |-> conn, exc |-> out.exc,
                            call |-> IF out.did = "call" THEN call ELSE 0,
                            packet |-> packet]
           /\ UNCHANGED <<tcp_vars, pubsub_vars>>

\* Mutant: the result is sent on the connection of the latest request.
ReplyProtocolLatest(i) == api_calls[Len(api_calls)].protocol

\* send_result is a closure over the `protocol` argument of the receive call
\* that scheduled handler invocation i.
ReplyProtocol(i) == api_calls[i].protocol

\* An endpoint handler finishes with a result: its future's done-callback
\* send_result sends the result packet.
ApiReturns ==
    \E i \in DOMAIN api_calls :
       /\ api_calls[i].state = "running"
       /\ api_calls' = [api_calls EXCEPT ![i].state = "done"]
       /\ outbox' = [outbox EXCEPT ![ReplyProtocol(i)] =
                        Append(@, [type |-> "response", node_id |-> NoNode, call |-> i])]
       /\ UNCHANGED <<tcp_vars, pubsub_vars, pong_calls, recv_last>>

\* An endpoint handler raises: f.result() raises in send_result, and nothing
\* is sent.
ApiRaises ==
    \E i \in DOMAIN api_calls :
       /\ api_calls[i].state = "running"
       /\ api_calls' = [api_calls EXCEPT ![i].state = "raised"]
       /\ UNCHANGED <<tcp_vars, pubsub_vars, outbox, pong_calls, recv_last>>

\* -------------------------------------------------------------- PubSubBus
\* '/'.join(parts)
RECURSIVE Join(_)
Join(parts) ==
    IF Len(parts) = 0 THEN <<>>
    ELSE IF Len(parts) = 1 THEN parts[1]
    ELSE parts[1] \o <<"/">> \o Join(Tail(parts))

\* s.split('/'), scanning s with the segment `cur` under construction.
RECURSIVE SplitFrom(_, _, _)
SplitFrom(s, cur, acc) ==
    IF s = <<>> THEN Append(acc, cur)
    ELSE IF Head(s) = "/" THEN SplitFrom(Tail(s), <<>>, Append(acc, cur))
    ELSE SplitFrom(Tail(s), Append(cur, Head(s)), acc)

Split(s) == SplitFrom(s, <<>>, <<>>)

\* Mutant: the node id is left out of the key.
GetPubsubKeyNoNode(service, version, endpoint, node_id) ==
    Join(<<service, PyStr(version), endpoint>>)

\* _get_pubsub_key(service, version, endpoint, node_id=None)
GetPubsubKey(service, version, endpoint, node_id) ==
    IF node_id # NoNode
    THEN Join(<<service, PyStr(version), endpoint, node_id>>)
    ELSE Join(<<service, PyStr(version), endpoint>>)

\* json.dumps(payload, cls=VykedEncoder) and json.loads(data): a payload is
\* an opaque dict, its serialization a tagged value.
Payloads == {"p1", "p2"}
JsonDumps(payload) == <<"json", payload>>
JsonLoads(data) == data[2]

\* What publish() is called with.
PublishTargets ==
    { [service |-> SvcA, version |-> IntV(1), endpoint |-> OnEvent],
      [service |-> SvcB, version |-> StrV(<<"2">>), endpoint |-> OnOther] }

\* The exclusive subscribers the registry may report: replicas x and y of a
\* downstream service d, each registered with either strategy, and replica
\* z, the only one of a downstream service e; get_subscribers returns any
\* list of them, in any order.
SubscriberNodes == {NodeX, NodeY, NodeZ}
Strategies == {"LEADER", "OTHER"}
Subscriber(n, st) ==
    [name |-> IF n = NodeZ THEN <<"e">> ELSE <<"d">>, version |-> IntV(1),
     node_id |-> n, strategy |-> st]
AllSubscribers ==
    { Subscriber(n, st) : n \in {NodeX, NodeY}, st \in Strategies }
    \cup { Subscriber(NodeZ, "OTHER") }
SubscriberLists ==
    UNION { { l \in [1..k -> AllSubscribers] :
                \A a, b \in 1..k : a # b => l[a].node_id # l[b].node_id }
            : k \in 0..MaxSubscribers }

GroupKey(sub) == <<sub.name, sub.version>>

\* The keys of `strategies` in insertion order, and the list under a key.
RECURSIVE GroupKeys(_)
GroupKeys(subscribers) ==
    IF subscribers = <<>> THEN <<>>
    ELSE LET front == SubSeq(subscribers, 1, Len(subscribers) - 1)
             rest == GroupKeys(front)
             key == GroupKey(subscribers[Len(subscribers)])
         IN  IF \E j \in DOMAIN rest : rest[j] = key THEN rest ELSE Append(rest, key)

\* Mutant: the subscribers are not grouped.
GroupMembersUngrouped(subscribers, key) == subscribers

GroupMembers(subscribers, key) ==
    LET InGroup(sub) == GroupKey(sub) = key
    IN  SelectSeq(subscribers, InGroup)

\* The node ids xpublish may pick for one group: the first member when that
\* member's strategy is LEADER, else random.choice over the members.
XPublishTargets(value) ==
    IF value[1].strategy = "LEADER"
    THEN {value[1].node_id}
    ELSE {value[m].node_id : m \in DOMAIN value}

NoMessage == [op |-> "none", topic |-> <<>>, exc |-> "None", client |-> NoClient,
              endpoint |-> <<>>, parsed |-> <<>>]

\* A client's attributes that getattr(client, endpoint) finds.
Handlers(c) == Clients[c].subs \cup {x.endpoint : x \in Clients[c].xsubs}

\* subscription_handler up to the handler lookup: the exception raised, or
\* the client and the method the message is routed to.
SubscriptionRoute(clients, topic) ==
    LET elements == Split(topic)
        n == Len(elements)
    IN  IF (n > 3 /\ n # 4) \/ (n <= 3 /\ n # 3)
        THEN [NoMessage EXCEPT !.op = "subscription_handler", !.topic = topic,
                               !.exc = "ValueError"]
        ELSE LET service == elements[1]
                 version == elements[2]
                 endpoint == elements[3]
                 found == { c \in DOMAIN clients :
                              clients[c].name = service
                              /\ PyEqStr(clients[c].version, version) }
                 parsed == <<service, StrV(version), endpoint>>
             IN  IF found = {}
                 THEN [NoMessage EXCEPT !.op = "subscription_handler",
                                        !.topic = topic, !.exc = "IndexError",
                                        !.parsed = parsed]
                 ELSE LET c == CHOOSE c \in found : \A d \in found : c <= d
                      IN  IF endpoint \notin Handlers(c)
                          THEN [NoMessage EXCEPT !.op = "subscription_handler",
                                                 !.topic = topic,
                                                 !.exc = "AttributeError",
                                                 !.parsed = parsed]
                          ELSE [op |-> "subscription_handler", topic |-> topic,
                                exc |-> "None", client |-> c,
                                endpoint |-> endpoint, parsed |-> parsed]

\* publish(service, version, endpoint, payload): issues the broadcast publish
\* and starts the xpublish task.
Publish ==
    \E t \in PublishTargets, payload \in Payloads :
       /\ Len(xtasks) < MaxPublishes
       /\ pub_log' = Append(pub_log,
              [call |-> Len(xtasks) + 1,
               topic |-> GetPubsubKey(t.service, t.version, t.endpoint, NoNode),
               data |-> JsonDumps(payload)])
       /\ xtasks' = Append(xtasks,
              [service |-> t.service, version |-> t.version, endpoint |-> t.endpoint,
               payload |-> payload, state |-> "waiting", subscribers |-> <<>>])
       /\ UNCHANGED <<tcp_vars, recv_vars, sub_clients, subscribed, reg_xsubs,
                      sub_calls, sub_last>>

\* xpublish resumes with the registry's answer to get_subscribers: one
\* publish per (name, version) group, to the picked member's topic.
XPublish ==
    \E i \in DOMAIN xtasks, subscribers \in SubscriberLists :
       LET t == xtasks[i]
           keys == GroupKeys(subscribers)
       IN  /\ t.state = "waiting"
           /\ \E pick \in [DOMAIN keys -> SubscriberNodes] :
                /\ \A j \in DOMAIN keys :
                      pick[j] \in XPublishTargets(GroupMembers(subscribers, keys[j]))
                /\ pub_log' = pub_log \o
                      [j \in DOMAIN keys |->
                         [call |-> i,
                          topic |-> GetPubsubKey(t.service, t.version, t.endpoint,
                                                 pick[j]),
                          data |-> JsonDumps(t.payload)]]
           /\ xtasks' = [xtasks EXCEPT ![i] =
                            [t EXCEPT !.state = "done", !.subscribers = subscribers]]
           /\ UNCHANGED <<tcp_vars, recv_vars, sub_clients, subscribed, reg_xsubs,
                          sub_calls,
                          sub_last>>

\* get_subscribers raises inside the xpublish task: the task ends there.
XPublishFails ==
    \E i \in DOMAIN xtasks :
       /\ xtasks[i].state = "waiting"
       /\ xtasks' = [xtasks EXCEPT ![i].state = "failed"]
       /\ UNCHANGED <<tcp_vars, recv_vars, pub_log, sub_clients, subscribed, reg_xsubs,
                      sub_calls,
                      sub_last>>

\* register_for_subscription(host, port, node_id, clients), with the host's
\* own node id and its clients.
RegisterForSubscription ==
    /\ sub_clients = <<>>
    /\ sub_clients' = Clients
    /\ reg_xsubs' =
          UNION { { <<Clients[c].name, Clients[c].version, x.endpoint, x.strategy>> :
                      x \in Clients[c].xsubs } : c \in ClientIds }
    /\ subscribed' =
          UNION { { GetPubsubKey(Clients[c].name, Clients[c].version, e, NoNode) :
                      e \in Clients[c].subs }
                  \cup { GetPubsubKey(Clients[c].name, Clients[c].version,
                                      x.endpoint, HostId) : x \in Clients[c].xsubs }
                  : c \in ClientIds }
    /\ UNCHANGED <<tcp_vars, recv_vars, pub_log, xtasks, sub_calls, sub_last>>

\* Topics of messages the transport may hand over besides the subscribed
\* ones: too few segments, too many, and a service no client names.
StrayTopics ==
    { Join(<<SvcA, <<"1">> >>),
      Join(<<SvcA, <<"1">>, OnEvent, HostId, <<"k">> >>),
      Join(<<SvcC, <<"1">>, OnEvent>>) }

DeliveredTopics == subscribed \cup (IF sub_clients # <<>> THEN StrayTopics ELSE {})

\* subscription_handler(endpoint, payload), called by the transport with a
\* message.
SubscriptionHandler ==
    \E topic \in DeliveredTopics, payload \in Payloads :
       LET route == SubscriptionRoute(sub_clients, topic)
       IN  /\ Len(sub_calls) < MaxMessages
           /\ sub_last' = route
           /\ sub_calls' = IF route.exc = "None"
                           THEN Append(sub_calls,
                                  [client |-> route.client, endpoint |-> route.endpoint,
                                   kwargs |-> JsonLoads(JsonDumps(payload))])
                           ELSE sub_calls
           /\ UNCHANGED <<tcp_vars, recv_vars, pub_log, xtasks, sub_clients,
                          subscribed, reg_xsubs>>

Init ==
    /\ reg_nodes = {}
    /\ node_clients = [n \in NodeIds |-> NoClient]
    /\ client_protocols = [n \in NodeIds |-> NoProto]
    /\ pingers = {}
    /\ connecting = {}
    /\ next_proto = 1
    /\ connected = {}
    /\ wire = [p \in ProtoIds |-> <<>>]
    /\ requests = <<>>
    /\ last = NoCall
    /\ registered = FALSE
    /\ resolve_seq = <<>>
    /\ pub_log = <<>>
    /\ xtasks = <<>>
    /\ sub_clients = <<>>
    /\ subscribed = {}
    /\ reg_xsubs = {}
    /\ sub_calls = <<>>
    /\ sub_last = NoMessage
    /\ api_calls = <<>>
    /\ outbox = [c \in Peers |-> <<>>]
    /\ pong_calls = <<>>
    /\ recv_last = NoReceive

\* The request path: send() and the retried sender, while replicas come and
\* go, connections are made and transports close.
Next ==
    \/ RegistryChange
    \/ NewInstance(FALSE)
    \/ ConnectionCallback(FALSE)
    \/ TransportClose
    \/ Send(MaxRequests)
    \/ RequestAttempt(FALSE)

Spec == Init /\ [][Next]_vars

\* The connection manager: every handler call is recorded in `last`.
NextConn ==
    \/ RegistryChange
    \/ NewInstance(TRUE)
    \/ ConnectionCallback(TRUE)
    \/ TransportClose
    \/ HandlePingTimeout(TRUE)
    \/ RegistrationComplete(TRUE)

SpecConn == Init /\ [][NextConn]_vars

\* The send() calls of the ordering specification: two callers, each
\* making one call.
Callers == {1, 2}

\* Concurrent send() calls, with the order of their resolve steps recorded.
NextOrder ==
    \/ RegistryChange
    \/ NewInstance(FALSE)
    \/ ConnectionCallback(FALSE)
    \/ Send(Cardinality(Callers))
    \/ RequestAttempt(TRUE)

SpecOrder == Init /\ [][NextOrder]_vars

\* The publishing side of the pub/sub bus.
NextPublish ==
    \/ Publish
    \/ XPublish
    \/ XPublishFails

SpecPublish == Init /\ [][NextPublish]_vars

\* The subscribing side of the pub/sub bus.
NextSubscribe ==
    \/ RegisterForSubscription
    \/ SubscriptionHandler

SpecSubscribe == Init /\ [][NextSubscribe]_vars

\* The inbound side of the TCP bus: packets arrive, endpoint handlers
\* finish.
NextReceive ==
    \/ Receive
    \/ ApiReturns
    \/ ApiRaises

SpecReceive == Init /\ [][NextReceive]_vars

\* ------------------------------------------------------------ the claims
\* The (protocol, position) places where request i's packet was handed to a
\* transport.
Handed(i) ==
    UNION { { <<p, k>> : k \in { k \in DOMAIN wire[p] : wire[p][k].req = i } }
            : p \in ProtoIds }

\* C1: an attempt whose target resolves to a node id with a connected table
\* entry hands exactly one packet to that entry's transport, with 'to' the
\* resolved node id and 'from' the local node id, and ends the call in
\* success; when that is the first attempt, nothing was waited or retried.
C1_ConnectedTargetSentOnce ==
    \A i \in DOMAIN requests :
       LET r == requests[i] IN
       (r.type = "request" /\ r.attempts >= 1 /\ r.obs.node # NoNode
          /\ r.obs.proto # NoProto /\ r.obs.live)
       => /\ r.state = "done"
          /\ Cardinality(Handed(i)) = 1
          /\ \A h \in Handed(i) :
                /\ h[1] = r.obs.proto
                /\ wire[h[1]][h[2]].to = r.obs.node
                /\ wire[h[1]][h[2]].from = HostId
          /\ r.packet.to = r.obs.node
          /\ r.packet.from = HostId
          /\ Len(r.delays) = r.attempts - 1
          /\ (r.attempts = 1 => r.delays = <<>>)

\* C1 witness: a call that succeeded on its first attempt.
C1_Witness ==
    \E i \in DOMAIN requests :
       /\ requests[i].state = "done"
       /\ requests[i].attempts = 1
       /\ Cardinality(Handed(i)) = 1

\* C2: a call none of whose attempts succeeded has made no more than 5
\* attempts and handed no packet to any transport; after 5 failed attempts
\* it has ended in failure, and it ends in failure only then.
C2_BoundedAttemptsThenFailure ==
    \A i \in DOMAIN requests :
       LET r == requests[i] IN
       r.type = "request"
       => /\ r.attempts <= 5
          /\ (r.state # "done" => Handed(i) = {} /\ r.packet.to = Unset)
          /\ (r.state # "done" /\ r.attempts = 5 => r.state = "failed")
          /\ (r.state = "failed"
                => r.attempts = 5
                   /\ r.error \in {"ClientNotFoundError", "ClientDisconnected"})

\* C2 witness: a call that ended in failure.
C2_Witness ==
    \E i \in DOMAIN requests :
       requests[i].state = "failed" /\ requests[i].attempts = 5

\* C3: a call that succeeds on attempt 3 after two failed attempts has sent
\* its packet exactly once, and the delay waited before attempt 3 is twice
\* the delay waited before attempt 2.
C3_ThirdAttemptBackoff ==
    \A i \in DOMAIN requests :
       LET r == requests[i] IN
       (r.state = "done" /\ r.attempts = 3)
       => /\ Cardinality(Handed(i)) = 1
          /\ Len(r.delays) = 2
          /\ r.delays[2] = 2 * r.delays[1]

\* C3 witness: a call that succeeded on its third attempt.
C3_Witness ==
    \E i \in DOMAIN requests :
       /\ requests[i].state = "done"
       /\ requests[i].attempts = 3
       /\ Len(requests[i].delays) = 2

ReplicaPublishes(i) ==
    { k \in DOMAIN pub_log : pub_log[k].call = i /\ Len(Split(pub_log[k].topic)) = 4 }
PublishedNode(k) == Split(pub_log[k].topic)[4]

\* The groups of a subscriber list and a group's member node ids.
GroupsOf(subs) == { <<subs[j].name, subs[j].version>> : j \in DOMAIN subs }
MembersOf(subs, key) ==
    { subs[j].node_id : j \in { j \in DOMAIN subs : <<subs[j].name, subs[j].version>> = key } }
LeadersOf(subs, key) ==
    { subs[j].node_id : j \in { j \in DOMAIN subs :
                                  /\ <<subs[j].name, subs[j].version>> = key
                                  /\ subs[j].strategy = "LEADER" } }

\* C5 as stated: in a finished xpublish, every group that has a member
\* tagged LEADER gets its publish on a LEADER member's topic, whatever the
\* order of the subscriber list.
C5_Original ==
    \A i \in DOMAIN xtasks :
       xtasks[i].state = "done"
       => \A key \in GroupsOf(xtasks[i].subscribers) :
             LeadersOf(xtasks[i].subscribers, key) # {}
             => \A k \in ReplicaPublishes(i) :
                   PublishedNode(k) \in MembersOf(xtasks[i].subscribers, key)
                   => PublishedNode(k) \in LeadersOf(xtasks[i].subscribers, key)

\* C6: a finished xpublish has issued, for every (name, version) group of
\* the subscribers it was given, exactly one publish to a per-replica topic
\* of the published endpoint, naming a member of that group, and no other
\* per-replica publish.
C6_OnePublishPerGroup ==
    \A i \in DOMAIN xtasks :
       LET t == xtasks[i] IN
       t.state = "done"
       => /\ \A key \in GroupsOf(t.subscribers) :
                Cardinality({ k \in ReplicaPublishes(i) :
                                PublishedNode(k) \in MembersOf(t.subscribers, key) }) = 1
          /\ Cardinality(ReplicaPublishes(i)) = Cardinality(GroupsOf(t.subscribers))
          /\ \A k \in ReplicaPublishes(i) :
                /\ pub_log[k].topic = Join(<<t.service, PyStr(t.version), t.endpoint,
                                             PublishedNode(k)>>)
                /\ pub_log[k].data = <<"json", t.payload>>

\* C6 witness: a call given [(x, OTHER), (y, OTHER)] that delivered to y,
\* the second member.
C6_Witness ==
    \E i \in DOMAIN xtasks :
       /\ xtasks[i].state = "done"
       /\ xtasks[i].subscribers = <<Subscriber(NodeX, "OTHER"), Subscriber(NodeY, "OTHER")>>
       /\ \E k \in ReplicaPublishes(i) : PublishedNode(k) = NodeY

\* C7: every publish call has issued exactly one publish to the topic
\* service/version/endpoint, carrying the serialized payload, whether its
\* xpublish is still waiting, has failed or has published to its groups.
C7_OneBroadcastPerPublish ==
    \A i \in DOMAIN xtasks :
       LET t == xtasks[i]
           hits == { k \in DOMAIN pub_log :
                       /\ pub_log[k].call = i
                       /\ pub_log[k].topic = Join(<<t.service, PyStr(t.version),
                                                    t.endpoint>>) }
       IN  /\ Cardinality(hits) = 1
           /\ \A k \in hits : pub_log[k].data = <<"json", t.payload>>

\* C7 witness: a call whose xpublish published to two groups, its one
\* broadcast publish in the log beside them.
C7_Witness ==
    \E i \in DOMAIN xtasks :
       /\ xtasks[i].state = "done"
       /\ Cardinality(GroupsOf(xtasks[i].subscribers)) = 2
       /\ Cardinality(ReplicaPublishes(i)) = 2
       /\ Len(pub_log) = 3

\* C8 as stated: a message on the topic the key constructor builds for a
\* local proxy's endpoint, with or without a node id, is routed to that
\* proxy's method of that name, and parsing the topic gives back the
\* (service, version, endpoint) it was built from.
C8_Original ==
    sub_last.op = "subscription_handler"
    => \A c \in ClientIds, n \in {NoNode, HostId} :
          \A e \in Handlers(c) :
             sub_last.topic = GetPubsubKey(Clients[c].name, Clients[c].version, e, n)
             => /\ sub_last.exc = "None"
                /\ sub_last.client = c
                /\ sub_last.endpoint = e
                /\ sub_last.parsed = <<Clients[c].name, Clients[c].version, e>>

\* C9 as stated: after handle_ping_timeout(node) the connection table has no
\* entry for the node until a new connection for it is established.
C9_Original ==
    last.op = "handle_ping_timeout" => client_protocols[last.node] = NoProto

\* C10 as stated: handle_ping_timeout(node) issues exactly one connection
\* attempt when the registry still reports the node, none when it does not,
\* and does not raise.
C10_Original ==
    last.op = "handle_ping_timeout"
    => /\ last.exc = "None"
       /\ last.connects = IF last.known THEN 1 ELSE 0

\* C11: the connection table holds at most one protocol object per node id,
\* and a connection attempt that completes successfully puts its own
\* protocol object in the table under its node id, whatever was there and
\* whichever attempt for that node was opened first: the entry is that of
\* the attempt that completed last.
C11_LastCompletedAttemptWins ==
    /\ [](\A n \in NodeIds : client_protocols[n] \in {NoProto} \cup 1..(next_proto - 1))
    /\ [][\A a \in connecting :
             (connecting' = connecting \ {a} /\ a.id \in connected' \ connected)
                => client_protocols' = [client_protocols EXCEPT ![a.node] = a.id]]_vars

\* Two attempts for node x, opened by a notification and then by bootstrap,
\* both succeeded, the one opened first completing last: its protocol object
\* is the entry.  Node y was never connected to.
C11_Witness ==
    /\ connected = {1, 2}
    /\ connecting = {}
    /\ client_protocols[NodeX] = 1
    /\ node_clients[NodeY] = NoClient

\* The registered service clients whose (name, version) is the identity a
\* new_instance call was given.
ProxiesNamed(arg) ==
    { c \in ClientIds : Clients[c].name = arg.service /\ Clients[c].version = arg.version }

\* C12: a new_instance call for a TCP replica of a service a registered
\* client names opens exactly one connection attempt, for the notified node
\* and bound to that client; a call for a replica of another type opens none
\* and leaves the tables as they were.
C12_OneAttemptBoundToProxy ==
    /\ []((last.op = "new_instance" /\ ProxiesNamed(last.arg) # {})
             => /\ last.exc = "None"
                /\ last.connects = IF last.arg.type = "tcp" THEN 1 ELSE 0)
    /\ [][(last'.op = "new_instance" /\ ProxiesNamed(last'.arg) # {})
             => IF last'.arg.type = "tcp" /\ next_proto' # next_proto
                THEN /\ \E a \in connecting' \ connecting :
                           /\ connecting' = connecting \cup {a}
                           /\ a.node = last'.node
                           /\ a.sc \in ProxiesNamed(last'.arg)
                           /\ node_clients' = [node_clients EXCEPT ![a.node] = a.sc]
                     /\ UNCHANGED client_protocols
                ELSE last'.arg.type = "tcp"
                     \/ UNCHANGED <<node_clients, client_protocols, connecting,
                                    next_proto>>]_vars

\* A notification of a TCP replica of service b has just been handled: one
\* attempt is in flight, bound to the client of service b.
C12_Witness ==
    /\ last.op = "new_instance"
    /\ last.arg.type = "tcp"
    /\ last.arg.service = SvcB
    /\ last.connects = 1
    /\ \E a \in connecting : a.node = last.node /\ Clients[a.sc].name = SvcB

\* The replies for handler invocation i that were sent on connection c.
RepliesOn(c, i) ==
    { k \in DOMAIN outbox[c] : outbox[c][k].type = "response" /\ outbox[c][k].call = i }

\* C13: a request addressed to the hosted service that names an endpoint
\* marked is_api schedules one handler invocation with the packet's sender,
\* entity and payload, and receive returns with the handler still running
\* and nothing sent; once a handler has its result exactly one reply for it
\* has been sent, on the connection its request arrived on, and none before.
C13_ReplyOnRequestConnection ==
    /\ []((recv_last.type = "request"
             /\ recv_last.packet.name = SvcH /\ recv_last.packet.version = IntV(1)
             /\ recv_last.packet.endpoint = EpGet)
           => /\ recv_last.exc = "None"
              /\ recv_last.call \in DOMAIN api_calls
              /\ api_calls[recv_last.call].endpoint = recv_last.packet.endpoint
              /\ api_calls[recv_last.call].args.from_id = recv_last.packet.from
              /\ api_calls[recv_last.call].args.entity = recv_last.packet.entity
              /\ api_calls[recv_last.call].args.payload = recv_last.packet.payload
              /\ api_calls[recv_last.call].protocol = recv_last.conn)
    /\ [](\A i \in DOMAIN api_calls : \A c \in Peers :
             Cardinality(RepliesOn(c, i)) =
                IF api_calls[i].state = "done" /\ api_calls[i].protocol = c
                THEN 1 ELSE 0)
    /\ [][recv_last'.call # recv_last.call /\ recv_last'.call # 0
            => /\ api_calls' = Append(api_calls, api_calls'[recv_last'.call])
               /\ api_calls'[recv_last'.call].state = "running"
               /\ outbox' = outbox]_vars

\* Two requests arrived on different connections; the handler of the second
\* finished first and its reply went out on the second's connection, while
\* the first is still running and nothing was sent on its connection.
C13_Witness ==
    /\ Len(api_calls) = 2
    /\ api_calls[1].protocol = 1 /\ api_calls[1].state = "running"
    /\ api_calls[2].protocol = 2 /\ api_calls[2].state = "done"
    /\ outbox[1] = <<>>
    /\ Len(outbox[2]) = 1 /\ outbox[2][1].call = 2

\* The latest receive call was given an application packet addressed to
\* another service, or to another version of the hosted one.
Misrouted(call) ==
    /\ call.type \notin {"none", "ping", "pong"}
    /\ ~(call.packet.name = SvcH /\ call.packet.version = IntV(1))

\* C14: receive returns normally from an application packet that is not
\* addressed to the hosted service, having scheduled no handler, sent
\* nothing and left the connection table as it was.
C14_MisroutedPacketDropped ==
    /\ [](Misrouted(recv_last) => recv_last.exc = "None" /\ recv_last.call = 0)
    /\ [][(recv_last' # recv_last /\ Misrouted(recv_last'))
            => UNCHANGED <<api_calls, outbox, pong_calls, client_protocols,
                           node_clients>>]_vars

\* A request for version 2 of the hosted service was dropped while an
\* earlier request is being handled.
C14_Witness ==
    /\ recv_last.type = "request"
    /\ recv_last.packet.name = SvcH
    /\ recv_last.packet.version = IntV(2)
    /\ recv_last.exc = "None"
    /\ Len(api_calls) = 1
    /\ PacketsSent = 0

\* C15: receive returns normally from a request addressed to the hosted
\* service whose endpoint names no attribute of the host, or an attribute
\* not marked as a request endpoint, having scheduled no handler.
C15_Original ==
    (/\ recv_last.type = "request"
     /\ recv_last.packet.name = SvcH /\ recv_last.packet.version = IntV(1)
     /\ recv_last.packet.endpoint # EpGet)
       => recv_last.exc = "None" /\ recv_last.call = 0

\* C18: receive returns normally from every control packet; a ping has put
\* a pong on the connection it arrived on, a pong has been forwarded to the
\* pinger of the packet's node id.
C18_Original ==
    /\ recv_last.type = "ping"
         => /\ recv_last.exc = "None"
            /\ \E k \in DOMAIN outbox[recv_last.conn] :
                  outbox[recv_last.conn][k] = [type |-> "pong", call |-> 0,
                                               node_id |-> recv_last.packet.node_id]
    /\ recv_last.type = "pong"
         => /\ recv_last.exc = "None"
            /\ \E k \in DOMAIN pong_calls :
                  pong_calls[k].node_id = recv_last.packet.node_id

\* The topic has 3 or 4 segments and names a local client by service name
\* and version numeral.
NamesLocalClient(topic) ==
    /\ Len(Split(topic)) \in {3, 4}
    /\ \E c \in ClientIds : /\ Clients[c].name = Split(topic)[1]
                            /\ PyStr(Clients[c].version) = Split(topic)[2]

\* C16: subscription_handler returns normally, having invoked no handler,
\* from a message whose topic has neither 3 nor 4 segments or names a
\* (service, version) no local client has.
C16_Original ==
    (sub_last.op = "subscription_handler" /\ ~NamesLocalClient(sub_last.topic))
       => sub_last.exc = "None" /\ sub_last.client = NoClient

\* C17: the first registration_complete opens exactly one attempt for every
\* TCP replica the registry lists for a registered client, bound to that
\* client, and none for another replica; each attempt then completes on its
\* own: a failure removes only its own attempt and changes no table, a
\* success records its protocol object under its own node id and leaves
\* the other attempts in flight.
C17_IndependentBootstrapAttempts ==
    /\ [][(~registered /\ registered')
            => /\ \A n \in reg_nodes :
                    \E a \in connecting' \ connecting :
                       /\ a.node = n
                       /\ Clients[a.sc].name = SvcA
                       /\ node_clients'[n] = a.sc
                       /\ \A b \in connecting' \ connecting : b.node = n => b = a
               /\ \A a \in connecting' \ connecting : a.node \in reg_nodes
               /\ connecting \subseteq connecting'
               /\ UNCHANGED client_protocols]_vars
    /\ [][\A a \in connecting :
             connecting' = connecting \ {a}
                => \/ UNCHANGED <<client_protocols, node_clients, connected>>
                   \/ /\ a.id \in connected'
                      /\ client_protocols' = [client_protocols EXCEPT ![a.node] = a.id]
                      /\ UNCHANGED node_clients]_vars

\* Bootstrap opened attempts 2 and 3 for nodes x and y after a notification
\* had opened attempt 1; every attempt is over, the one for x failed and the
\* one for y succeeded and is y's entry.
C17_Witness ==
    /\ registered
    /\ next_proto = 4
    /\ connecting = {}
    /\ client_protocols[NodeX] = NoProto
    /\ client_protocols[NodeY] = 3
    /\ node_clients[NodeX] = 1

\* C20: bootstrap runs at most once.  Once a registration_complete call has
\* been made the flag is set and stays set, and a call made with the flag
\* set opens no connection attempt and changes no table.
C20_BootstrapOnce ==
    /\ [](last.op = "registration_complete" => registered)
    /\ [][registered => registered']_vars
    /\ [][(registered /\ last'.op = "registration_complete")
            => UNCHANGED <<connecting, next_proto, node_clients,
                           client_protocols>>]_vars

\* A second registration_complete call has just returned, having opened
\* nothing, while two attempts opened before it are still in flight.
C20_Witness ==
    /\ last.op = "registration_complete"
    /\ last.connects = 0
    /\ registered
    /\ next_proto = 3
    /\ Cardinality(connecting) = 2

\* The place of send() call i in the order of latest resolve steps.
ResolvePlace(i) == CHOOSE k \in DOMAIN resolve_seq : resolve_seq[k] = i

\* C19: on every connection the packets handed to the transport lie in the
\* order in which their send() calls made the resolve step of the attempt
\* that handed them over, whatever the interleaving and the retries; and a
\* call whose latest attempt resolved a node with a connected table entry
\* has handed its packet over in that same step.
C19_HandOffInResolveOrder ==
    /\ \A p \in ProtoIds : \A k, l \in DOMAIN wire[p] :
          k < l => /\ \E m \in DOMAIN resolve_seq : resolve_seq[m] = wire[p][k].req
                   /\ \E m \in DOMAIN resolve_seq : resolve_seq[m] = wire[p][l].req
                   /\ ResolvePlace(wire[p][k].req) < ResolvePlace(wire[p][l].req)
    /\ \A i \in DOMAIN requests :
          requests[i].obs.live
             => \E k \in DOMAIN wire[requests[i].obs.proto] :
                   wire[requests[i].obs.proto][k].req = i

\* Two calls handed their packets to the same connection: the second call
\* first, and the first call after a retry.
C19_Witness ==
    /\ Len(wire[1]) = 2
    /\ wire[1][1].req = 2
    /\ wire[1][2].req = 1
    /\ requests[1].attempts > 1
    /\ resolve_seq = <<2, 1>>
====
